---- MODULE Spec2Model ----
(***************************************************************************)
(* State-machine model of pacs_nm_retriever.py: one run of                 *)
(* PACSNMRetriever (construction, retrieve_images and everything it        *)
(* calls), with the remote archive, the external getscu tool and the       *)
(* local filesystem as a nondeterministic environment.                     *)
(*                                                                         *)
(* Conventions.  An optional Python value (None / a missing attribute, or  *)
(* a value) is a sequence of length 0 or 1.  Text is a sequence of         *)
(* one-character strings, so that the substring test of the modality      *)
(* filter is computed and not assumed.                                     *)
(***************************************************************************)
EXTENDS Integers, Sequences, FiniteSets, TLC

\* ------------------------------------------------------------------ bounds
\* pending C-FIND responses the archive sends in one study find
MaxStudyResponses == 2
\* pending C-FIND responses the archive sends in one series find
MaxSeriesResponses == 2
\* pending C-MOVE responses the archive sends in one move
MaxMoveResponses == 1
\* inbound C-STORE events during one move
MaxStores == 1
\* largest "Completed Suboperations" count in the tool output
MaxCompleted == 1
\* largest declared NumberOfStudyRelatedInstances
MaxDeclared == 1
\* largest --max-studies / --max-images value given
MaxLimit == 1
\* largest limit find_nm_studies is given in SpecFind
MaxFindLimit == 3
\* length of the response list the filter is applied to in SpecFind
MaxFound == 4
\* distinct file stems in the output tree
MaxStems == 1
\* inbound C-STORE events handled in SpecStore
MaxStoreCalls == 2
\* longest patient identifier handle_store is given in SpecSanitize
MaxIdLen == 3
\* listener threads running store callbacks in SpecCallbacks
MaxThreads == 2
\* inbound C-STORE events handled in SpecCallbacks
MaxCallbackStores == 3

\* ------------------------------------------------------- protocol constants
StatusPending == 65280
StatusPendingWarning == 65281
StatusSuccess == 0
StatusOutOfResourcesMatches == 42753
StatusOutOfResourcesSubops == 42754
StatusMoveDestinationUnknown == 43264
StatusUnableToProcess == 49152

\* main and find_nm_studies: the open bounds and the default span
FromSentinel == <<"1", "9", "7", "0", "0", "1", "0", "1">>
ToSentinel == <<"2", "9", "9", "9", "1", "2", "3", "1">>
DefaultDays == 30

\* exit statuses: a normal end, sys.exit(1), parser.error
ExitOk == 0
ExitError == 1
ExitUsage == 2

None == <<>>
Some(x) == <<x>>

\* ---------------------------------------------------------------- text
NM == <<"N", "M">>
CT == <<"C", "T">>
MR == <<"M", "R">>

\* a prefix test in place of the substring test
StartsWith(sub, s) == Len(sub) <= Len(s) /\ SubSeq(s, 1, Len(sub)) = sub

\* Python's `sub in s` on strings
Contains(sub, s) ==
    \E i \in 1..(Len(s) - Len(sub) + 1) : SubSeq(s, i, i + Len(sub) - 1) = sub

\* str(modalities): a single CS value is the string itself, a multi-value
\* prints as the list of its quoted values, "['CT', 'NM']"
RECURSIVE ReprItems(_)
ReprItems(mv) ==
    IF mv = <<>> THEN <<>>
    ELSE <<"'">> \o Head(mv) \o <<"'">>
         \o (IF Tail(mv) = <<>> THEN <<>> ELSE <<",", " ">> \o ReprItems(Tail(mv)))

Str(mv) == IF Len(mv) = 1 THEN mv[1] ELSE <<"[">> \o ReprItems(mv) \o <<"]">>

\* Python truthiness of an optional value: None, '' and an empty multi-value
\* are falsy
Truthy(opt) == opt # None /\ opt[1] # <<>>

\* a limit that is never applied
HasLimitNever(limit) == FALSE

\* `if limit`: None and 0 are both falsy, so 0 stands for "no limit"
HasLimit(limit) == limit # 0

\* ---------------------------------------------------------------- state
VARIABLES
    dry_run,            \* self.dry_run
    use_c_get,          \* self.use_c_get
    max_studies,        \* retrieve_images(max_studies=...); 0 is both the
                        \* integer 0 and None, which `if limit` reads alike
    max_images,         \* retrieve_images(max_images=...); 0 likewise
    output_dir_exists,  \* whether self.output_dir exists on disk
    files,              \* the files under self.output_dir
    fs_log,             \* kinds of filesystem changes made so far
    assoc,              \* the running call holds an established association
    unreleased,         \* calls that returned leaving their association open
    scp,                \* the storage SCP (listener) is running
    use_study_root,     \* self.use_study_root
    requests,           \* the find / retrieve requests made so far, each
                        \* with the query model it was made under
    ops,                \* kinds of network / transport operations made so far
    study_assoc,        \* find_nm_studies: how its associate() call ended
    all_studies,        \* find_nm_studies: responses collected
    studies,            \* find_nm_studies: the list returned
    total_images,       \* retrieve_images: the estimate logged before the loop
    idx,                \* retrieve_images: position of the loop over studies
    series,             \* find_nm_series: responses collected / list returned
    sidx,               \* retrieve_study: position of the loop over series
    success,            \* retrieve_study: the local `success`
    series_results,     \* per series of the current study: what happened
    study_results,      \* per study started: what retrieve_study returned
    nresp,              \* responses consumed in the running exchange
    nstores,            \* store events handled during the running move
    store_log,          \* those events: dataset, destination, outcome
    loaded,             \* per listener thread: the counter value a callback
                        \* has read for `self.image_count += 1`, not yet
                        \* written back
    tool_out,           \* the stdout _retrieve_with_get read last, if any
    walked,             \* the tree the last rename pass walked
    args,               \* main: the parsed command line (with the .env defaults)
    study_date,         \* retriever.study_date, as main set it
    query_date,         \* find_nm_studies: the StudyDate of its query
    now,                \* the current day
    exit_code,          \* the exit status of the process, once it has ended
    image_count,        \* self.image_count
    reported,           \* the count logged by the final summary, if any
    pc                  \* position of the main thread

vars ==
    <<dry_run, use_c_get, use_study_root, max_studies, max_images,
      output_dir_exists, files,
      fs_log, assoc, unreleased, scp, ops, requests, study_assoc, all_studies, studies,
      total_images,
      idx, series, sidx, success, series_results, study_results, nresp,
      nstores, store_log, loaded, tool_out, walked, args, study_date, query_date, now,
      exit_code, image_count, reported, pc>>

config == <<dry_run, use_c_get, use_study_root, max_studies, max_images>>
found == <<study_assoc, all_studies, studies, total_images>>
fs == <<output_dir_exists, files, fs_log>>
loop == <<idx, series, sidx, success, series_results, study_results>>
move == <<scp, nstores, store_log, loaded>>
proc == <<args, study_date, query_date, now, exit_code>>

\* the threads of the listener that run store callbacks
Threads == 1..MaxThreads

\* ------------------------------------------------------- response domains
PendingStatuses == {StatusPending, StatusPendingWarning}
FinalFindStatuses == {Some(StatusSuccess), Some(StatusUnableToProcess), None}

\* the value of ModalitiesInStudy in a response: missing, or a multi-value
ModalityFields ==
    {None, Some(<<>>), Some(<<NM>>), Some(<<CT, NM>>), Some(<<CT, MR>>),
     Some(<<<<"N">>, <<"M">>>>)}
RunModalityFields == {None, Some(<<NM>>), Some(<<CT, MR>>)}
DeclaredValues == {None} \cup {Some(n) : n \in 1..MaxDeclared}

StudyRecord(uid, m, n) ==
    [StudyInstanceUID |-> uid, ModalitiesInStudy |-> m,
     NumberOfStudyRelatedInstances |-> n]

\* a file of the output tree is its path: the list of its components, the
\* last one the file name
DotDcm == <<".", "d", "c", "m">>

\* self.output_dir, resolved: the components of an absolute path
OutputDir == << <<"o", "u", "t">> >>

FileName(path) == path[Len(path)]

\* str.endswith
EndsWith(text, suffix) ==
    /\ Len(suffix) <= Len(text)
    /\ SubSeq(text, Len(text) - Len(suffix) + 1, Len(text)) = suffix

Digits == {"0", "1", "2", "3", "4", "5", "6", "7", "8", "9"}

\* text of a number and back
DigitSeq == <<"0", "1", "2", "3", "4", "5", "6", "7", "8", "9">>
RECURSIVE NumText(_)
NumText(n) ==
    IF n < 10 THEN <<DigitSeq[n + 1]>>
    ELSE NumText(n \div 10) \o <<DigitSeq[(n % 10) + 1]>>
DigitValue(c) == (CHOOSE k \in 1..10 : DigitSeq[k] = c) - 1
RECURSIVE NumValue(_)
NumValue(text) ==
    IF Len(text) = 1 THEN DigitValue(text[1])
    ELSE 10 * NumValue(SubSeq(text, 1, Len(text) - 1)) + DigitValue(text[Len(text)])

\* ----------------------------------------------------- find_nm_studies
IsPending(status) == status # None /\ status[1] \in PendingStatuses

IsNMStudy(study) ==
    /\ Truthy(study.ModalitiesInStudy)
    /\ Contains(NM, Str(study.ModalitiesInStudy[1]))

\* the filter loop, with its break once `limit` studies are kept
RECURSIVE FilterNM(_, _, _)
FilterNM(all, limit, nm_studies) ==
    IF all = <<>> THEN nm_studies
    ELSE IF IsNMStudy(Head(all))
         THEN LET kept == Append(nm_studies, Head(all))
              IN  IF HasLimit(limit) /\ Len(kept) >= limit
                  THEN kept
                  ELSE FilterNM(Tail(all), limit, kept)
         ELSE FilterNM(Tail(all), limit, nm_studies)

\* s[:limit]
Slice(s, limit) ==
    IF limit >= 0
    THEN SubSeq(s, 1, IF limit < Len(s) THEN limit ELSE Len(s))
    ELSE SubSeq(s, 1, Len(s) + limit)

ResultStudies(all, limit) ==
    LET nm_studies == FilterNM(all, limit, <<>>)
    IN  IF HasLimit(limit) THEN Slice(nm_studies, limit) ELSE nm_studies

\* int(getattr(s, 'NumberOfStudyRelatedInstances', 0) or 0)
Declared(study) ==
    IF study.NumberOfStudyRelatedInstances = None
    THEN 0
    ELSE study.NumberOfStudyRelatedInstances[1]

RECURSIVE SumDeclared(_)
SumDeclared(ss) == IF ss = <<>> THEN 0 ELSE Declared(Head(ss)) + SumDeclared(Tail(ss))

\* ------------------------------------------------------------ the dates
Date(y, m, d) == [y |-> y, m |-> m, d |-> d]

IsLeap(y) == (y % 4 = 0 /\ y % 100 # 0) \/ y % 400 = 0

DaysInMonth(y, m) ==
    IF m = 2 THEN (IF IsLeap(y) THEN 29 ELSE 28)
    ELSE IF m \in {4, 6, 9, 11} THEN 30 ELSE 31

PrevDay(date) ==
    IF date.d > 1 THEN Date(date.y, date.m, date.d - 1)
    ELSE IF date.m > 1
         THEN Date(date.y, date.m - 1, DaysInMonth(date.y, date.m - 1))
         ELSE Date(date.y - 1, 12, 31)

NextDay(date) ==
    IF date.d < DaysInMonth(date.y, date.m) THEN Date(date.y, date.m, date.d + 1)
    ELSE IF date.m < 12 THEN Date(date.y, date.m + 1, 1)
         ELSE Date(date.y + 1, 1, 1)

\* end_date - timedelta(days=n)
RECURSIVE MinusDays(_, _)
MinusDays(date, n) == IF n = 0 THEN date ELSE MinusDays(PrevDay(date), n - 1)

\* a number in `width` digits, zero-padded
RECURSIVE Padded(_, _)
Padded(n, width) ==
    IF width = 0 THEN <<>>
    ELSE Padded(n \div 10, width - 1) \o <<DigitSeq[(n % 10) + 1]>>

\* strftime('%Y%m%d')
FormatDate(date) == Padded(date.y, 4) \o Padded(date.m, 2) \o Padded(date.d, 2)

\* f"{a}-{b}"
RangeText(a, b) == a \o <<"-">> \o b

\* the single date ahead of the bounds
ResolveSingleFirst(given) ==
    IF Truthy(given.study_date) THEN given.study_date
    ELSE IF Truthy(given.from_date) \/ Truthy(given.to_date)
    THEN Some(RangeText(IF Truthy(given.from_date) THEN given.from_date[1] ELSE FromSentinel,
                        IF Truthy(given.to_date) THEN given.to_date[1] ELSE ToSentinel))
    ELSE None

\* main: `if args.from_date or args.to_date:` ... `elif args.study_date:`
\* ... `else: retriever.study_date = None`
ResolveStudyDate(given) ==
    IF Truthy(given.from_date) \/ Truthy(given.to_date)
    THEN Some(RangeText(IF Truthy(given.from_date) THEN given.from_date[1] ELSE FromSentinel,
                        IF Truthy(given.to_date) THEN given.to_date[1] ELSE ToSentinel))
    ELSE IF Truthy(given.study_date) THEN given.study_date
    ELSE None

\* the days a run may start on
Todays == {Date(2024, 3, 1), Date(2023, 3, 1), Date(2024, 1, 15), Date(2023, 12, 31)}

\* find_nm_studies: `if not study_date:` the last 30 days, from the clock
QueryDate(given, today) ==
    IF Truthy(given) THEN given[1]
    ELSE RangeText(FormatDate(MinusDays(today, DefaultDays)), FormatDate(today))

\* ------------------------------------------------------------ __init__
\* the query model of a find:
\* `StudyRoot...Find if self.use_study_root else PatientRoot...Find`
FindModel(flag) == IF flag THEN "study" ELSE "patient"

\* the query model of a C-MOVE:
\* `StudyRoot...Move if self.use_study_root else PatientRoot...Move`
MoveModel(flag) == IF flag THEN "study" ELSE "patient"

\* the query model getscu is told to use: '-S' in the command, always
GetModel(flag) == "study"

Request(op, model) == [op |-> op, model |-> model]

\* the requests behind a set of operations already made
RequestsOf(made, flag) ==
    {Request(op, FindModel(flag)) : op \in made \cap {"c_find_study", "c_find_series"}}
    \cup {Request(op, MoveModel(flag)) : op \in made \cap {"c_move"}}
    \cup {Request(op, GetModel(flag)) : op \in made \cap {"getscu"}}

Construct ==
    /\ pc = "start"
    /\ output_dir_exists' = TRUE
    /\ fs_log' = IF output_dir_exists THEN fs_log ELSE fs_log \cup {"mkdir"}
    /\ image_count' = 0
    /\ pc' = "constructed"
    /\ UNCHANGED <<config, proc, tool_out, walked, files, assoc, unreleased, ops, requests, found,
                   loop, move, nresp, reported>>

\* main sets retriever.study_date from the arguments, then calls
\* retrieve_images
SetStudyDate ==
    /\ pc = "constructed"
    /\ study_date' = ResolveStudyDate(args)
    /\ pc' = "find_assoc"
    /\ UNCHANGED <<config, args, query_date, now, exit_code, tool_out, walked, fs,
                   assoc, unreleased, ops, requests, found, loop, move, nresp,
                   image_count, reported>>

\* --------------------------------------- retrieve_images: find_nm_studies
\* `except Exception: ... return []`
FindStudiesExcept(p) == p

\* the find sent without looking at the association
SendsFindAlways(outcome) == TRUE

\* `if assoc.is_established:` in front of send_c_find
SendsFind(outcome) == outcome = "established"

FindStudiesAssociate ==
    /\ pc = "find_assoc"
    /\ \E outcome \in {"established", "rejected", "raised"} :
        /\ study_assoc' = outcome
        /\ assoc' = (outcome = "established")
        /\ ops' = ops \cup {"associate"}
                      \cup (IF SendsFind(outcome) THEN {"c_find_study"} ELSE {})
        /\ requests' = IF SendsFind(outcome)
                       THEN requests \cup {Request("c_find_study", FindModel(use_study_root))}
                       ELSE requests
        /\ pc' = IF SendsFind(outcome) THEN "find_recv"
                 ELSE IF outcome = "raised" THEN FindStudiesExcept("done")
                 ELSE "done"
    /\ query_date' = Some(QueryDate(study_date, now))
    /\ all_studies' = <<>>
    /\ nresp' = 0
    /\ UNCHANGED <<config, args, study_date, now, exit_code, tool_out, walked, fs,
                   unreleased, studies, total_images, loop, move, image_count,
                   reported>>

FindStudiesResponse ==
    /\ pc = "find_recv"
    /\ nresp < MaxStudyResponses
    /\ \E status \in PendingStatuses, m \in RunModalityFields,
          n \in DeclaredValues, has_identifier \in BOOLEAN :
        LET identifier ==
                IF has_identifier
                THEN Some(StudyRecord(Len(all_studies) + 1, m, n))
                ELSE None
        IN  all_studies' =
                IF IsPending(Some(status)) /\ identifier # None
                THEN Append(all_studies, identifier[1])
                ELSE all_studies
    /\ nresp' = nresp + 1
    /\ UNCHANGED <<config, proc, tool_out, walked, fs, assoc, unreleased, ops, requests, study_assoc, studies,
                   total_images, loop, move, image_count, reported, pc>>

\* the final response ends the loop; the association is released
FindStudiesRelease ==
    /\ pc = "find_recv"
    /\ \E status \in FinalFindStatuses : ~IsPending(status)
    /\ assoc' = FALSE
    /\ nresp' = 0
    /\ pc' = "filter"
    /\ UNCHANGED <<config, proc, tool_out, walked, fs, unreleased, ops, requests, found, loop, move,
                   image_count, reported>>

\* an exception while the responses are exchanged: `except` returns []
FindStudiesRaise ==
    /\ pc = "find_recv"
    /\ assoc' = FALSE
    /\ unreleased' = unreleased \cup {"find_nm_studies"}
    /\ all_studies' = <<>>
    /\ nresp' = 0
    /\ pc' = FindStudiesExcept("done")
    /\ UNCHANGED <<config, proc, tool_out, walked, fs, ops, requests, study_assoc, studies, total_images, loop,
                   move, image_count, reported>>

FilterStudies ==
    /\ pc = "filter"
    /\ studies' = IF all_studies = <<>> THEN <<>>
                  ELSE ResultStudies(all_studies, max_studies)
    /\ pc' = "find_return"
    /\ UNCHANGED <<config, proc, tool_out, walked, fs, assoc, unreleased, ops, requests, study_assoc,
                   all_studies, total_images, loop, move, nresp, image_count,
                   reported>>

\* find_nm_studies has returned (its locals are gone); retrieve_images goes
\* on: `if not studies: return`, then the estimate of the total
FindStudiesReturns ==
    /\ pc = "find_return"
    /\ all_studies' = <<>>
    /\ total_images' = SumDeclared(studies)
    /\ pc' = IF studies = <<>> THEN "done" ELSE "loop"
    /\ idx' = 1
    /\ UNCHANGED <<config, proc, tool_out, walked, fs, assoc, unreleased, ops, requests, study_assoc, studies,
                   series, sidx, success, series_results, study_results, move,
                   nresp, image_count, reported>>

\* ------------------------------------------- retrieve_images: the loop
\* what _retrieve_with_get / _retrieve_with_move returned for one series
SeriesResult(ok, cause) == [ok |-> ok, cause |-> cause]

\* the result of the last series alone
AccumulateLast(ok_so_far, ok) == ok

\* retrieve_study: `if not self._retrieve_with_...(ds): success = False`
Accumulate(ok_so_far, ok) == ok_so_far /\ ok

\* retrieve_study returns; retrieve_images ignores the value
StudyReturns(result) ==
    /\ study_results' = Append(study_results, result)
    /\ pc' = "after_study"

\* one iteration of `for idx, study in enumerate(studies, 1)`: retrieve_study
\* is called; in dry-run it returns True at once
NextStudy ==
    /\ pc = "loop"
    /\ idx <= Len(studies)
    /\ IF dry_run
       THEN /\ StudyReturns(TRUE)
            /\ UNCHANGED <<series, series_results>>
       ELSE /\ pc' = "series_assoc"
            /\ UNCHANGED <<series, series_results, study_results>>
    /\ UNCHANGED <<config, proc, tool_out, walked, fs, assoc, unreleased, ops, requests, found, idx, sidx,
                   success, move, nresp, image_count, reported>>

\* a break only once the counter has passed the limit
ImageLimitPassed(limit, count) == HasLimit(limit) /\ count > limit

\* `if max_images and self.image_count >= max_images: break`
ImageLimitReached(limit, count) == HasLimit(limit) /\ count >= limit

\* a loop that leaves out every other study
NextIndexSkipping(i) == i + 2

\* `for idx, study in enumerate(studies, 1)`: the next position
NextIndex(i) == i + 1

\* retrieve_study has returned (its locals are gone); the limit is checked
AfterStudy ==
    /\ pc = "after_study"
    /\ IF ImageLimitReached(max_images, image_count)
       THEN pc' = "summary" /\ UNCHANGED idx
       ELSE pc' = "loop" /\ idx' = NextIndex(idx)
    /\ series' = <<>>
    /\ sidx' = 1
    /\ success' = TRUE
    /\ series_results' = <<>>
    /\ tool_out' = None
    /\ walked' = {}
    /\ UNCHANGED <<config, proc, fs, assoc, unreleased, ops, requests, found, study_results,
                   move, nresp, image_count, reported>>

LoopEnds ==
    /\ pc = "loop"
    /\ idx > Len(studies)
    /\ pc' = "summary"
    /\ UNCHANGED <<config, proc, tool_out, walked, fs, assoc, unreleased, ops, requests, found, loop, move,
                   nresp, image_count, reported>>

\* the closing log line: "... retrieved (approximately) {self.image_count} images"
Summary ==
    /\ pc = "summary"
    /\ reported' = Some(image_count)
    /\ pc' = "done"
    /\ UNCHANGED <<config, proc, tool_out, walked, fs, assoc, unreleased, ops, requests, found, loop, move,
                   nresp, image_count>>

\* ------------------------------------------ retrieve_study: find_nm_series
\* `except Exception` of find_nm_series: logged, then `return series`
FindSeriesExcept(p) == p

\* find_nm_series returned `nm_series` (or, were p not "series_loop", raised);
\* retrieve_study goes on from there
SeriesFound(nm_series, p) ==
    /\ series' = nm_series
    /\ IF nm_series = <<>> \/ p # "series_loop"
       THEN /\ IF p = "series_loop" THEN StudyReturns(FALSE)
               ELSE pc' = p /\ UNCHANGED study_results
            /\ UNCHANGED <<sidx, success>>
       ELSE /\ pc' = "series_loop"
            /\ sidx' = 1
            /\ success' = TRUE
            /\ UNCHANGED study_results

FindSeriesAssociate ==
    /\ pc = "series_assoc"
    /\ \E outcome \in {"established", "rejected", "raised"} :
        /\ ops' = ops \cup {"associate"}
                      \cup (IF outcome = "established" THEN {"c_find_series"} ELSE {})
        /\ requests' = IF outcome = "established"
                       THEN requests \cup {Request("c_find_series", FindModel(use_study_root))}
                       ELSE requests
        /\ assoc' = (outcome = "established")
        /\ IF outcome = "established"
           THEN /\ pc' = "series_recv"
                /\ UNCHANGED <<series, sidx, success, study_results>>
           ELSE SeriesFound(<<>>, IF outcome = "raised"
                                  THEN FindSeriesExcept("series_loop")
                                  ELSE "series_loop")
    /\ nresp' = 0
    /\ UNCHANGED <<config, proc, tool_out, walked, fs, unreleased, found, idx, series_results, move,
                   image_count, reported>>

FindSeriesResponse ==
    /\ pc = "series_recv"
    /\ nresp < MaxSeriesResponses
    /\ \E status \in PendingStatuses, has_identifier \in BOOLEAN :
        series' = IF IsPending(Some(status)) /\ has_identifier
                  THEN Append(series, [SeriesInstanceUID |-> Len(series) + 1])
                  ELSE series
    /\ nresp' = nresp + 1
    /\ UNCHANGED <<config, proc, tool_out, walked, fs, assoc, unreleased, ops, requests, found, idx, sidx,
                   success, series_results, study_results, move, image_count,
                   reported, pc>>

FindSeriesRelease ==
    /\ pc = "series_recv"
    /\ \E status \in FinalFindStatuses : ~IsPending(status)
    /\ assoc' = FALSE
    /\ nresp' = 0
    /\ SeriesFound(series, "series_loop")
    /\ UNCHANGED <<config, proc, tool_out, walked, fs, unreleased, ops, requests, found, idx, series_results,
                   move, image_count, reported>>

\* an exception while the responses are exchanged: logged, and the series
\* collected so far are returned
FindSeriesRaise ==
    /\ pc = "series_recv"
    /\ assoc' = FALSE
    /\ unreleased' = unreleased \cup {"find_nm_series"}
    /\ nresp' = 0
    /\ SeriesFound(series, FindSeriesExcept("series_loop"))
    /\ UNCHANGED <<config, proc, tool_out, walked, fs, ops, requests, found, idx, series_results, move,
                   image_count, reported>>

\* the move variant whatever the flag
UseGetNever(flag) == FALSE

\* retrieve_study: `if self.use_c_get:` ... `else:`
UseGet(flag) == flag

\* one series retrieval returned `ok`
SeriesReturns(ok, cause, p) ==
    /\ series_results' = Append(series_results, SeriesResult(ok, cause))
    /\ success' = Accumulate(success, ok)
    /\ sidx' = sidx + 1
    /\ pc' = p

\* the loop over the series is over: `return success`
StudyEnds ==
    /\ pc = "series_loop"
    /\ sidx > Len(series)
    /\ StudyReturns(success)
    /\ UNCHANGED <<config, proc, tool_out, walked, fs, assoc, unreleased, ops, requests, found, idx, series,
                   sidx, success, series_results, move, nresp, image_count,
                   reported>>

\* ------------------------------------------------- _retrieve_with_get
GetOutcomes == {"no_tool", "error", "timeout", "exit_nonzero", "exit_zero"}

\* str.split(sep): the pieces between the separators
RECURSIVE Split(_, _, _)
Split(text, sep, current) ==
    IF text = <<>> THEN <<current>>
    ELSE IF Head(text) = sep THEN <<current>> \o Split(Tail(text), sep, <<>>)
    ELSE Split(Tail(text), sep, Append(current, Head(text)))

\* str.strip(), for blanks
RECURSIVE Strip(_)
Strip(text) ==
    IF text # <<>> /\ Head(text) = " " THEN Strip(Tail(text))
    ELSE IF text # <<>> /\ text[Len(text)] = " "
         THEN Strip(SubSeq(text, 1, Len(text) - 1))
         ELSE text

\* the piece after the last ':' in place of the piece after the first
LastField(pieces) == IF Len(pieces) >= 2 THEN Some(pieces[Len(pieces)]) ELSE None

\* line.split(':')[1], if there is one (IndexError otherwise)
SecondField(pieces) == IF Len(pieces) >= 2 THEN Some(pieces[2]) ELSE None

\* int(text), if text is a number (ValueError otherwise)
IsNumber(text) == text # <<>> /\ \A k \in 1..Len(text) : text[k] \in Digits

\* int(text): digits, after a sign or none
ParseInt(text) ==
    IF IsNumber(text) THEN Some(NumValue(text))
    ELSE IF text # <<>> /\ Head(text) = "+" /\ IsNumber(Tail(text))
    THEN Some(NumValue(Tail(text)))
    ELSE IF text # <<>> /\ Head(text) = "-" /\ IsNumber(Tail(text))
    THEN Some(0 - NumValue(Tail(text)))
    ELSE None

CompletedKey ==
    <<"C", "o", "m", "p", "l", "e", "t", "e", "d", " ",
      "S", "u", "b", "o", "p", "e", "r", "a", "t", "i", "o", "n", "s">>

\* the lines getscu may print: none about the count, the count after the
\* key, the key alone, a value that is no number, the key after a prefix
\* that holds a ':' itself, a number below zero
LineWithCount(n) == CompletedKey \o <<":", " ">> \o NumText(n)
ToolOutputs ==
    {<<>>, <<CompletedKey>>, <<CompletedKey \o <<":", " ", "x">>>>}
    \cup {<<LineWithCount(n)>> : n \in 0..MaxCompleted}
    \cup {<<<<"I", ":", " ">> \o CompletedKey \o <<" ", ":", " ">> \o NumText(n)>> :
             n \in 1..MaxCompleted}
    \cup {<<CompletedKey \o <<":", " ", "-">> \o NumText(n)>> : n \in 1..MaxCompleted}

\* completed = 0; for each line holding the key:
\* try: completed = int(line.split(':')[1].strip()) except: pass
RECURSIVE ParseCompletedFrom(_, _)
ParseCompletedFrom(lines, completed) ==
    IF lines = <<>> THEN completed
    ELSE LET line == Head(lines)
             field == SecondField(Split(line, ":", <<>>))
             value == IF field = None THEN None ELSE ParseInt(Strip(field[1]))
         IN  ParseCompletedFrom(Tail(lines),
                                IF Contains(CompletedKey, line) /\ value # None
                                THEN value[1]
                                ELSE completed)

ParseCompleted(output) == ParseCompletedFrom(output, 0)

\* `if completed > 0: self.image_count += completed`
CountsCompleted(completed) == completed > 0

\* the files getscu stores: named after the object, without extension
ToolName(n) == <<"1", ".", "2", ".">> \o [k \in 1..n |-> "8"]
ToolFiles == {OutputDir \o <<ToolName(n)>> : n \in 1..MaxStems}

\* `if not filename.endswith('.dcm')`
NeedsDcm(path) == ~EndsWith(FileName(path), DotDcm)

\* new_path = Path(root) / f"{filename}.dcm"
WithDcm(path) == [path EXCEPT ![Len(path)] = @ \o DotDcm]

\* a pass that renames nothing
RenamePassSkipped(tree, failing) == tree

\* the os.walk pass: every file not ending in ".dcm" is renamed to
\* <name>.dcm, except those whose rename raises (`failing`)
RenamePass(tree, failing) ==
    LET renamed == {f \in tree : NeedsDcm(f) /\ f \notin failing}
    IN  (tree \ renamed) \cup {WithDcm(f) : f \in renamed}

\* `except subprocess.TimeoutExpired` / `except Exception`: return False
GetExcept(p) == p

\* getscu ran and ended with exit code 0: the output is parsed, the rename
\* pass runs over the tree, the counter grows by the count parsed
GetSucceeds(stored) ==
    \E output \in ToolOutputs, failing \in SUBSET {f \in stored : NeedsDcm(f)} :
        LET completed == ParseCompleted(output)
            repaired == RenamePass(stored, failing)
        IN  /\ files' = repaired
            /\ tool_out' = Some(output)
            /\ walked' = stored
            /\ fs_log' = fs_log
                   \cup (IF stored # files THEN {"write"} ELSE {})
                   \cup (IF repaired # stored THEN {"rename"} ELSE {})
            /\ image_count' = IF CountsCompleted(completed)
                              THEN image_count + completed
                              ELSE image_count
            /\ SeriesReturns(TRUE,
                             IF failing = {} THEN "exit_zero"
                             ELSE "exit_zero_rename_failed",
                             "series_loop")

\* getscu is missing, could not be run, timed out or ended with a nonzero
\* exit code: `return False`
GetFails(outcome, stored) ==
    /\ files' = stored
    /\ tool_out' = None
    /\ walked' = {}
    /\ fs_log' = fs_log \cup (IF stored # files THEN {"write"} ELSE {})
    /\ image_count' = image_count
    /\ SeriesReturns(FALSE, outcome,
                     IF outcome \in {"timeout", "error"}
                     THEN GetExcept("series_loop")
                     ELSE "series_loop")

RetrieveWithGet ==
    /\ pc = "series_loop"
    /\ sidx <= Len(series)
    /\ UseGet(use_c_get)
    /\ \E outcome \in GetOutcomes :
        /\ ops' = IF outcome # "no_tool" THEN ops \cup {"getscu"} ELSE ops
        /\ requests' = IF outcome # "no_tool"
                       THEN requests \cup {Request("getscu", GetModel(use_study_root))}
                       ELSE requests
        /\ IF outcome \in {"no_tool", "error"}
           THEN GetFails(outcome, files)
           ELSE \E written \in SUBSET ToolFiles :
                    IF outcome = "exit_zero"
                    THEN GetSucceeds(files \cup written)
                    ELSE GetFails(outcome, files \cup written)
    /\ UNCHANGED <<config, proc, output_dir_exists, assoc, unreleased, found, idx,
                   series, study_results, move, nresp, reported>>

\* ------------------------------------------------ _retrieve_with_move
\* statuses the move loop logs as "warning/error"
MoveErrorStatuses ==
    {StatusOutOfResourcesMatches, StatusOutOfResourcesSubops,
     StatusMoveDestinationUnknown, StatusUnableToProcess}
FinalMoveStatuses ==
    {Some(StatusSuccess), None} \cup {Some(c) : c \in MoveErrorStatuses}

\* a shutdown on the paths that return, not in a `finally`
ShutdownOnReturnOnly(outcome) == outcome = "raised"

\* `finally: scp.shutdown()`: whether the listener still runs afterwards
ShutdownAfterMove(outcome) == FALSE

\* a listener taken to run whatever start_server gave
ServerAssumed(outcome) == TRUE

\* `if scp:` after start_server returned (an exception gives no `scp`)
ServerRuns(outcome) == outcome = "started"

\* `except Exception` around start_server
ServerExcept(p) == p

\* the move exchange without its `except`
MoveNoExcept(p) == "raised"

\* `except Exception` around the move exchange
MoveExcept(p) == p

\* `if assoc.is_established` in front of send_c_move
SendsMove(outcome) == outcome = "established"

StartServer ==
    /\ pc = "series_loop"
    /\ sidx <= Len(series)
    /\ ~UseGet(use_c_get)
    /\ \E outcome \in {"started", "none", "raised"} :
        /\ ops' = ops \cup {"start_server"}
        /\ UNCHANGED requests
        /\ scp' = (outcome = "started")
        /\ IF ServerRuns(outcome)
           THEN /\ pc' = "move_assoc"
                /\ UNCHANGED <<sidx, success, series_results>>
           ELSE SeriesReturns(FALSE, "server_" \o outcome,
                              IF outcome = "raised"
                              THEN ServerExcept("series_loop")
                              ELSE "series_loop")
    /\ nstores' = 0
    /\ UNCHANGED loaded
    /\ store_log' = <<>>
    /\ UNCHANGED <<config, proc, tool_out, walked, fs, assoc, unreleased, found, idx, series,
                   study_results, nresp, image_count, reported>>

MoveAssociate ==
    /\ pc = "move_assoc"
    /\ \E outcome \in {"established", "rejected", "raised"} :
        /\ ops' = ops \cup {"associate"}
                      \cup (IF SendsMove(outcome) THEN {"c_move"} ELSE {})
        /\ requests' = IF SendsMove(outcome)
                       THEN requests \cup {Request("c_move", MoveModel(use_study_root))}
                       ELSE requests
        /\ assoc' = (outcome = "established")
        /\ IF SendsMove(outcome)
           THEN /\ pc' = "move_recv"
                /\ UNCHANGED <<move, sidx, success, series_results>>
           ELSE /\ scp' = ShutdownAfterMove(outcome)
                /\ nstores' = 0
                /\ UNCHANGED loaded
                /\ store_log' = <<>>
                /\ SeriesReturns(FALSE, "assoc_" \o outcome,
                                 IF outcome = "raised"
                                 THEN MoveExcept("series_loop")
                                 ELSE "series_loop")
    /\ nresp' = 0
    /\ UNCHANGED <<config, proc, tool_out, walked, fs, unreleased, found, idx, series, study_results,
                   image_count, reported>>

MoveResponse ==
    /\ pc = "move_recv"
    /\ nresp < MaxMoveResponses
    /\ \E status \in PendingStatuses : status \notin MoveErrorStatuses
    /\ nresp' = nresp + 1
    /\ UNCHANGED <<config, proc, tool_out, walked, fs, assoc, unreleased, ops, requests, found, loop, move,
                   image_count, reported, pc>>

\* the final response ends the loop: release, `return True`, then `finally`
MoveComplete ==
    /\ pc = "move_recv"
    /\ \E status \in FinalMoveStatuses :
        SeriesReturns(TRUE,
                      IF status # None /\ status[1] \in MoveErrorStatuses
                      THEN "move_error_status"
                      ELSE "move_done",
                      "series_loop")
    /\ assoc' = FALSE
    /\ scp' = ShutdownAfterMove("returned")
    /\ nresp' = 0
    /\ nstores' = 0
    /\ UNCHANGED loaded
    /\ store_log' = <<>>
    /\ UNCHANGED <<config, proc, tool_out, walked, fs, unreleased, ops, requests, found, idx, series,
                   study_results, image_count, reported>>

\* an exception while the responses are exchanged: `return False`, `finally`
MoveRaise ==
    /\ pc = "move_recv"
    /\ assoc' = FALSE
    /\ unreleased' = unreleased \cup {"_retrieve_with_move"}
    /\ scp' = ShutdownAfterMove("raised")
    /\ SeriesReturns(FALSE, "move_raised", MoveExcept("series_loop"))
    /\ nresp' = 0
    /\ nstores' = 0
    /\ UNCHANGED loaded
    /\ store_log' = <<>>
    /\ UNCHANGED <<config, proc, tool_out, walked, fs, ops, requests, found, idx, series, study_results,
                   image_count, reported>>

\* --------------------------------------------------------- handle_store
Letters ==
    {"A", "B", "C", "D", "E", "F", "G", "H", "I", "J", "K", "L", "M", "N",
     "O", "P", "Q", "R", "S", "T", "U", "V", "W", "X", "Y", "Z",
     "a", "b", "c", "d", "e", "f", "g", "h", "i", "j", "k", "l", "m", "n",
     "o", "p", "q", "r", "s", "t", "u", "v", "w", "x", "y", "z"}

\* c.isalnum(), over ASCII
IsAlnum(c) == c \in Letters \cup Digits

\* the test without its `or c in ('-', '_')`
IsAlnumOnly(c) == IsAlnum(c)

\* `c.isalnum() or c in ('-', '_')`
IsKept(c) == IsAlnum(c) \/ c \in {"-", "_"}

\* "".join(c for c in patient_id if ...)
RECURSIVE Sanitize(_)
Sanitize(text) ==
    IF text = <<>> THEN <<>>
    ELSE (IF IsKept(Head(text)) THEN <<Head(text)>> ELSE <<>>)
         \o Sanitize(Tail(text))

UNKNOWN == <<"U", "N", "K", "N", "O", "W", "N">>

\* getattr(ds, name, 'UNKNOWN')
GetAttr(field) == IF field = None THEN UNKNOWN ELSE field[1]

\* the components of a path segment: split at "/", empty and "." components
\* dropped (pathlib), ".." kept
RECURSIVE Components(_, _)
Components(text, current) ==
    LET done == IF current \in {<<>>, <<".">>} THEN <<>> ELSE <<current>>
    IN  IF text = <<>> THEN done
        ELSE IF Head(text) = "/" THEN done \o Components(Tail(text), <<>>)
        ELSE Components(Tail(text), Append(current, Head(text)))

\* the first part of an absolute path (Path('/a').parts[0])
Root == <<"/">>

\* pathlib's `base / segment`: an absolute segment replaces the base
PathJoin(base, segment) ==
    IF segment # <<>> /\ Head(segment) = "/"
    THEN <<Root>> \o Components(segment, <<>>)
    ELSE base \o Components(segment, <<>>)

\* the four names handle_store takes from the dataset, patient_id sanitized
StoreNames(ds) ==
    [patient_id |-> Sanitize(GetAttr(ds.PatientID)),
     study_uid |-> GetAttr(ds.StudyInstanceUID),
     series_uid |-> GetAttr(ds.SeriesInstanceUID),
     sop_uid |-> GetAttr(ds.SOPInstanceUID)]

\* save_dir = self.output_dir / patient_id / study_uid / series_uid
SaveDir(ds) ==
    LET names == StoreNames(ds)
    IN  PathJoin(PathJoin(PathJoin(OutputDir, names.patient_id),
                          names.study_uid),
                 names.series_uid)

\* filepath = save_dir / f"{sop_uid}.dcm"
FilePath(ds) == PathJoin(SaveDir(ds), StoreNames(ds).sop_uid \o DotDcm)

Dataset(patient, study, srs, sop) ==
    [PatientID |-> patient, StudyInstanceUID |-> study,
     SeriesInstanceUID |-> srs, SOPInstanceUID |-> sop]

\* what one call of handle_store did: the status it returned, or that it
\* raised; whether the file was written at `path` (dry-run returns before
\* a path is derived: <<>>)
StoreEvent(ds, path, written, raised, status) ==
    [ds |-> ds, names |-> StoreNames(ds), path |-> path, written |-> written,
     raised |-> raised, status |-> status]

\* handle_store for one inbound dataset, on a thread of the listener that
\* has read `count` for `self.image_count += 1`
HandleStoreFrom(ds, count) ==
    /\ nstores' = nstores + 1
    /\ image_count' = count + 1
    /\ IF dry_run
       THEN /\ store_log' = Append(store_log,
                                   StoreEvent(ds, <<>>, FALSE, FALSE,
                                              Some(StatusSuccess)))
            /\ UNCHANGED <<files, fs_log>>
       ELSE \E mkdir \in {"created", "exists", "failed"}, saved \in BOOLEAN :
               LET raised == mkdir = "failed"
                   written == ~raised /\ saved
                   status == IF raised THEN None
                             ELSE IF saved THEN Some(StatusSuccess)
                             ELSE Some(StatusUnableToProcess)
               IN  /\ files' = IF written
                               THEN files \cup {FilePath(ds)}
                               ELSE files
                   /\ fs_log' = fs_log
                          \cup (IF mkdir = "created" THEN {"mkdir"} ELSE {})
                          \cup (IF written THEN {"write"} ELSE {})
                   /\ store_log' = Append(store_log,
                                          StoreEvent(ds, FilePath(ds), written,
                                                     raised, status))
    /\ UNCHANGED <<config, proc, tool_out, walked, output_dir_exists, assoc, unreleased, scp, ops, requests,
                   found, loop, nresp, reported, pc>>

\* handle_store for one inbound dataset, no other callback running
HandleStoreOn(ds) == HandleStoreFrom(ds, image_count) /\ UNCHANGED loaded

\* the datasets the archive sends during a run
RunDatasets ==
    {Dataset(Some(<<"P", "1">>), Some(<<"1", ".", "2">>),
             Some(<<"1", ".", "2", ".", "3">>), Some(<<"1", ".", "2", ".", "3", ".", "4">>))}

\* one inbound C-STORE, handled while the listener runs
HandleStore ==
    /\ scp
    /\ nstores < MaxStores
    /\ \E ds \in RunDatasets : HandleStoreOn(ds)

\* handle_store called on thread t (pynetdicom runs each association of
\* the listener on a thread of its own): the callback has read
\* self.image_count for the `+=` of line 164 and not yet written it
BeginStore(t) ==
    /\ scp
    /\ loaded[t] = None
    /\ nstores + Cardinality({u \in Threads : loaded[u] # None}) < MaxCallbackStores
    /\ loaded' = [loaded EXCEPT ![t] = Some(image_count)]
    /\ UNCHANGED <<config, proc, tool_out, walked, fs, assoc, unreleased, scp, nstores,
                   store_log, ops, requests, found, loop, nresp, image_count, reported, pc>>

\* the callback on thread t writes the counter and runs to its end
FinishStore(t) ==
    /\ loaded[t] # None
    /\ \E ds \in RunDatasets : HandleStoreFrom(ds, loaded[t][1])
    /\ loaded' = [loaded EXCEPT ![t] = None]

\* ------------------------------------------------------------------ main
\* the arguments: host and AE title of the archive, the three date options
Args(host, aet, from_date, to_date, single) ==
    [host |-> host, aet |-> aet, from_date |-> from_date, to_date |-> to_date,
     study_date |-> single]

\* a validation that lets everything through
MissingNever(given) == FALSE

\* `if not args.host:` / `if not args.aet:`
MissingRequired(given) == ~Truthy(given.host) \/ ~Truthy(given.aet)

\* the arguments are validated: parser.error prints the usage and exits
\* with status 2, before the retriever is constructed
MainValidate ==
    /\ pc = "main"
    /\ IF MissingRequired(args)
       THEN pc' = "exited" /\ exit_code' = Some(ExitUsage)
       ELSE pc' = "start" /\ UNCHANGED exit_code
    /\ UNCHANGED <<config, args, study_date, query_date, now, tool_out, walked, fs,
                   assoc, unreleased, ops, requests, found, loop, move, nresp,
                   image_count, reported>>

\* retrieve_images has returned: main ends, the process exits with 0
MainExit ==
    /\ pc = "done"
    /\ pc' = "exited"
    /\ exit_code' = Some(ExitOk)
    /\ UNCHANGED <<config, args, study_date, query_date, now, tool_out, walked, fs,
                   assoc, unreleased, ops, requests, found, loop, move, nresp,
                   image_count, reported>>

\* positions inside retrieve_images
RunPcs ==
    {"find_assoc", "find_recv", "filter", "find_return", "loop", "after_study",
     "series_assoc", "series_recv", "series_loop", "move_assoc", "move_recv",
     "summary"}

\* an exit status taken from the run, whatever ended it
ExitAlwaysOk(cause) == ExitOk

\* `except KeyboardInterrupt: ... sys.exit(1)` and
\* `except Exception as e: ... sys.exit(1)`
ExitAfter(cause) == ExitError

\* retrieve_images is left by an exception: the `finally` of the move call
\* stops the listener, no handler inside retrieve_images runs, and main's
\* handler logs and exits
Aborted(cause) ==
    /\ scp' = FALSE
    /\ nstores' = 0
    /\ UNCHANGED loaded
    /\ store_log' = <<>>
    /\ assoc' = FALSE
    /\ unreleased' = IF assoc THEN unreleased \cup {cause} ELSE unreleased
    /\ pc' = "exited"
    /\ exit_code' = Some(ExitAfter(cause))
    /\ UNCHANGED <<config, args, study_date, query_date, now, tool_out, walked, fs,
                   ops, requests, found, loop, nresp, image_count>>

\* the user interrupts the run (KeyboardInterrupt on the main thread)
Interrupt ==
    /\ pc \in RunPcs
    /\ Aborted("KeyboardInterrupt")
    /\ UNCHANGED reported

\* the summary is logged, then the file count raises (os.listdir on an
\* output directory that cannot be read): an error no handler of
\* retrieve_images catches
FileCountRaises ==
    /\ pc = "summary"
    /\ reported' = Some(image_count)
    /\ Aborted("Exception")

\* midnight passes before the find is made
Tick ==
    /\ pc \in {"main", "start", "constructed", "find_assoc"}
    /\ now \in Todays
    /\ now' = NextDay(now)
    /\ UNCHANGED <<config, args, study_date, query_date, exit_code, tool_out, walked,
                   fs, assoc, unreleased, ops, requests, found, loop, move, nresp,
                   image_count, reported, pc>>

\* ------------------------------------------------------- specifications
\* the arguments of a run with the archive named and no date option
RunArgs == Args(Some(<<"p", "a", "c", "s">>), Some(<<"A", "E">>), None, None, None)

Init ==
    /\ dry_run \in BOOLEAN
    /\ use_c_get \in BOOLEAN
    /\ use_study_root = TRUE
    /\ max_studies \in 0..MaxLimit
    /\ max_images \in 0..MaxLimit
    /\ output_dir_exists \in BOOLEAN
    /\ files = {}
    /\ fs_log = {}
    /\ assoc = FALSE
    /\ unreleased = {}
    /\ scp = FALSE
    /\ ops = {}
    /\ requests = RequestsOf(ops, use_study_root)
    /\ study_assoc = "none"
    /\ all_studies = <<>>
    /\ studies = <<>>
    /\ total_images = 0
    /\ idx = 1
    /\ series = <<>>
    /\ sidx = 1
    /\ success = TRUE
    /\ series_results = <<>>
    /\ study_results = <<>>
    /\ nresp = 0
    /\ nstores = 0
    /\ store_log = <<>>
    /\ loaded = [t \in Threads |-> None]
    /\ tool_out = None
    /\ walked = {}
    /\ args = RunArgs
    /\ study_date = None
    /\ query_date = None
    /\ now = Date(2024, 1, 15)
    /\ exit_code = None
    /\ image_count = 0
    /\ reported = None
    /\ pc = "start"

Next ==
    \/ Construct
    \/ SetStudyDate
    \/ FindStudiesAssociate
    \/ FindStudiesResponse
    \/ FindStudiesRelease
    \/ FindStudiesRaise
    \/ FilterStudies
    \/ FindStudiesReturns
    \/ NextStudy
    \/ AfterStudy
    \/ LoopEnds
    \/ Summary
    \/ FindSeriesAssociate
    \/ FindSeriesResponse
    \/ FindSeriesRelease
    \/ FindSeriesRaise
    \/ StudyEnds
    \/ RetrieveWithGet
    \/ StartServer
    \/ MoveAssociate
    \/ MoveResponse
    \/ MoveComplete
    \/ MoveRaise
    \/ HandleStore

Spec == Init /\ [][Next]_vars

\* find_nm_studies' filter applied to every list of collected responses
FoundLists ==
    UNION {[1..n -> ModalityFields] : n \in 0..MaxFound}

InitFind ==
    /\ dry_run = FALSE
    /\ use_c_get = TRUE
    /\ use_study_root = TRUE
    /\ max_studies \in 0..MaxFindLimit
    /\ max_images = 0
    /\ output_dir_exists = TRUE
    /\ files = {}
    /\ fs_log = {}
    /\ assoc = FALSE
    /\ unreleased = {}
    /\ scp = FALSE
    /\ ops = {"associate", "c_find_study"}
    /\ requests = RequestsOf(ops, use_study_root)
    /\ study_assoc = "established"
    /\ \E ms \in FoundLists :
        all_studies = [i \in 1..Len(ms) |-> StudyRecord(i, ms[i], None)]
    /\ studies = <<>>
    /\ total_images = 0
    /\ idx = 1
    /\ series = <<>>
    /\ sidx = 1
    /\ success = TRUE
    /\ series_results = <<>>
    /\ study_results = <<>>
    /\ nresp = 0
    /\ nstores = 0
    /\ store_log = <<>>
    /\ loaded = [t \in Threads |-> None]
    /\ tool_out = None
    /\ walked = {}
    /\ args = RunArgs
    /\ study_date = None
    /\ now = Date(2024, 1, 15)
    /\ query_date = Some(QueryDate(None, now))
    /\ exit_code = None
    /\ image_count = 0
    /\ reported = None
    /\ pc = "filter"

NextFind == FilterStudies

SpecFind == InitFind /\ [][NextFind]_vars

\* handle_store applied to a sequence of inbound datasets while a move runs
StorePatients == {None, Some(<<"P", "1">>), Some(<<"P", "/", "1">>)}
StoreStudies == {None, Some(<<"1", ".", "2">>), Some(<<"1", ".", "2", "/", "3">>)}
StoreSeries == {None, Some(<<"4">>), Some(<<"3", "/", "4">>)}
StoreInstances == {None, Some(<<"9", ".", "1">>)}
StoreDatasets ==
    {Dataset(patient, study, srs, sop) :
        patient \in StorePatients, study \in StoreStudies,
        srs \in StoreSeries, sop \in StoreInstances}

InitStore ==
    /\ dry_run \in BOOLEAN
    /\ use_c_get = FALSE
    /\ use_study_root = TRUE
    /\ max_studies = 0
    /\ max_images = 0
    /\ output_dir_exists = TRUE
    /\ files = {}
    /\ fs_log = {}
    /\ assoc = TRUE
    /\ unreleased = {}
    /\ scp = TRUE
    /\ ops = {"associate", "c_find_study", "c_find_series", "start_server",
              "c_move"}
    /\ requests = RequestsOf(ops, use_study_root)
    /\ study_assoc = "established"
    /\ all_studies = <<>>
    /\ studies = <<StudyRecord(1, Some(<<NM>>), None)>>
    /\ total_images = 0
    /\ idx = 1
    /\ series = <<[SeriesInstanceUID |-> 1]>>
    /\ sidx = 1
    /\ success = TRUE
    /\ series_results = <<>>
    /\ study_results = <<>>
    /\ nresp = 0
    /\ nstores = 0
    /\ store_log = <<>>
    /\ loaded = [t \in Threads |-> None]
    /\ tool_out = None
    /\ walked = {}
    /\ args = RunArgs
    /\ study_date = None
    /\ now = Date(2024, 1, 15)
    /\ query_date = Some(QueryDate(None, now))
    /\ exit_code = None
    /\ image_count = 0
    /\ reported = None
    /\ pc = "move_recv"

StoreCall ==
    /\ scp
    /\ nstores < MaxStoreCalls
    /\ \E ds \in StoreDatasets : HandleStoreOn(ds)

NextStore == StoreCall

SpecStore == InitStore /\ [][NextStore]_vars

\* handle_store applied to one dataset, over every short patient identifier
IdChars == {"A", "1", "-", "_", "/", "*"}
IdTexts == UNION {[1..n -> IdChars] : n \in 0..MaxIdLen}
ExampleId == <<"A", "B", "/", "1", "2", "*", "I", "D">>
SanitizeDatasets ==
    {Dataset(patient, Some(<<"1", ".", "2">>), Some(<<"1", ".", "2", ".", "3">>),
             Some(<<"1", ".", "2", ".", "3", ".", "4">>)) :
        patient \in {None, Some(ExampleId)} \cup {Some(t) : t \in IdTexts}}

InitSanitize == InitStore /\ ~dry_run

SanitizeCall ==
    /\ scp
    /\ nstores = 0
    /\ \E ds \in SanitizeDatasets : HandleStoreOn(ds)

NextSanitize == SanitizeCall

SpecSanitize == InitSanitize /\ [][NextSanitize]_vars

\* _retrieve_with_get applied to the two series of a study, over every
\* tree the output directory may hold beforehand
ExampleName == <<"1", ".", "2", ".", "8", "4", "0">>
RenameTree ==
    {OutputDir \o <<ExampleName>>,
     OutputDir \o <<ExampleName \o DotDcm>>,
     OutputDir \o <<<<"a", ".", "D", "C", "M">>>>,
     OutputDir \o <<DotDcm>>,
     OutputDir \o <<<<"P", "1">>, <<"1", ".", "2">>, <<"7">>>>}

InitRename ==
    /\ dry_run = FALSE
    /\ use_c_get = TRUE
    /\ use_study_root = TRUE
    /\ max_studies = 0
    /\ max_images = 0
    /\ output_dir_exists = TRUE
    /\ files \in SUBSET RenameTree
    /\ fs_log = {}
    /\ assoc = FALSE
    /\ unreleased = {}
    /\ scp = FALSE
    /\ ops = {"associate", "c_find_study", "c_find_series"}
    /\ requests = RequestsOf(ops, use_study_root)
    /\ study_assoc = "established"
    /\ all_studies = <<>>
    /\ studies = <<StudyRecord(1, Some(<<NM>>), None)>>
    /\ total_images = 0
    /\ idx = 1
    /\ series = <<[SeriesInstanceUID |-> 1], [SeriesInstanceUID |-> 2]>>
    /\ sidx = 1
    /\ success = TRUE
    /\ series_results = <<>>
    /\ study_results = <<>>
    /\ nresp = 0
    /\ nstores = 0
    /\ store_log = <<>>
    /\ loaded = [t \in Threads |-> None]
    /\ tool_out = None
    /\ walked = {}
    /\ args = RunArgs
    /\ study_date = None
    /\ now = Date(2024, 1, 15)
    /\ query_date = Some(QueryDate(None, now))
    /\ exit_code = None
    /\ image_count = 0
    /\ reported = None
    /\ pc = "series_loop"

NextRename == RetrieveWithGet

SpecRename == InitRename /\ [][NextRename]_vars

\* main's date options and the default of find_nm_studies, over every
\* combination of the three options, up to the study find
FromDates == {None, Some(<<>>), Some(<<"2", "0", "2", "1", "0", "9", "0", "1">>)}
ToDates == {None, Some(<<>>), Some(<<"2", "0", "2", "1", "0", "9", "3", "0">>)}
SingleDates ==
    {None, Some(<<"2", "0", "2", "1", "0", "9", "1", "5">>),
     Some(<<"2", "0", "2", "1", "0", "9", "1", "5", "-">>)}

InitDate ==
    /\ dry_run = TRUE
    /\ use_c_get = TRUE
    /\ use_study_root = TRUE
    /\ max_studies = 0
    /\ max_images = 0
    /\ output_dir_exists = TRUE
    /\ files = {}
    /\ fs_log = {}
    /\ assoc = FALSE
    /\ unreleased = {}
    /\ scp = FALSE
    /\ ops = {}
    /\ requests = RequestsOf(ops, use_study_root)
    /\ study_assoc = "none"
    /\ all_studies = <<>>
    /\ studies = <<>>
    /\ total_images = 0
    /\ idx = 1
    /\ series = <<>>
    /\ sidx = 1
    /\ success = TRUE
    /\ series_results = <<>>
    /\ study_results = <<>>
    /\ nresp = 0
    /\ nstores = 0
    /\ store_log = <<>>
    /\ loaded = [t \in Threads |-> None]
    /\ tool_out = None
    /\ walked = {}
    /\ \E f \in FromDates, t \in ToDates, single \in SingleDates :
        args = Args(RunArgs.host, RunArgs.aet, f, t, single)
    /\ study_date = None
    /\ query_date = None
    /\ now \in Todays
    /\ exit_code = None
    /\ image_count = 0
    /\ reported = None
    /\ pc = "main"

NextDate ==
    \/ MainValidate
    \/ Construct
    \/ SetStudyDate
    \/ Tick
    \/ FindStudiesAssociate

SpecDate == InitDate /\ [][NextDate]_vars

\* handle_store applied to one dataset, over identifiers that hold '/' and
\* '..', are empty or are missing
PathTexts ==
    {<<"1", ".", "2">>, <<>>, <<".">>, <<".", ".">>, <<".", ".", "/", ".", ".">>,
     <<"/", "e", "t", "c">>, <<"a", "/", ".", ".", "/", ".", ".", "/", "b">>}
PathFields == {None} \cup {Some(t) : t \in PathTexts}
PathDatasets ==
    {Dataset(patient, study, srs, sop) :
        patient \in PathFields, study \in PathFields,
        srs \in PathFields, sop \in PathFields}

InitPath == InitStore /\ ~dry_run

PathCall ==
    /\ scp
    /\ nstores = 0
    /\ \E ds \in PathDatasets : HandleStoreOn(ds)

NextPath == PathCall

SpecPath == InitPath /\ [][NextPath]_vars

\* store callbacks of one move, on the threads of the listener
InitCallbacks == InitStore /\ ~dry_run

\* the final response of the move: the archive sends it once every object
\* it delivered has been answered, so no callback is still running
MoveCompleteAfterStores ==
    /\ \A t \in Threads : loaded[t] = None
    /\ MoveComplete

NextCallbacks ==
    \/ \E t \in Threads : BeginStore(t)
    \/ \E t \in Threads : FinishStore(t)
    \/ MoveCompleteAfterStores

SpecCallbacks == InitCallbacks /\ [][NextCallbacks]_vars

\* the run under either query model (--patient-root given or not), with
\* either transport
InitQueryModel ==
    /\ dry_run = FALSE
    /\ use_c_get \in BOOLEAN
    /\ use_study_root \in BOOLEAN
    /\ max_studies = 0
    /\ max_images = 0
    /\ output_dir_exists = TRUE
    /\ files = {}
    /\ fs_log = {}
    /\ assoc = FALSE
    /\ unreleased = {}
    /\ scp = FALSE
    /\ ops = {}
    /\ requests = {}
    /\ study_assoc = "none"
    /\ all_studies = <<>>
    /\ studies = <<>>
    /\ total_images = 0
    /\ idx = 1
    /\ series = <<>>
    /\ sidx = 1
    /\ success = TRUE
    /\ series_results = <<>>
    /\ study_results = <<>>
    /\ nresp = 0
    /\ nstores = 0
    /\ store_log = <<>>
    /\ loaded = [t \in Threads |-> None]
    /\ tool_out = None
    /\ walked = {}
    /\ args = RunArgs
    /\ study_date = None
    /\ query_date = None
    /\ now = Date(2024, 1, 15)
    /\ exit_code = None
    /\ image_count = 0
    /\ reported = None
    /\ pc = "start"

SpecQueryModel == InitQueryModel /\ [][Next]_vars

\* the whole process: main from the parsed arguments to its exit
Hosts == {None, Some(<<>>), RunArgs.host}
Aets == {None, Some(<<>>), RunArgs.aet}

InitMain ==
    /\ dry_run \in BOOLEAN
    /\ use_c_get \in BOOLEAN
    /\ use_study_root = TRUE
    /\ max_studies = 0
    /\ max_images = 0
    /\ output_dir_exists = TRUE
    /\ files = {}
    /\ fs_log = {}
    /\ assoc = FALSE
    /\ unreleased = {}
    /\ scp = FALSE
    /\ ops = {}
    /\ requests = RequestsOf(ops, use_study_root)
    /\ study_assoc = "none"
    /\ all_studies = <<>>
    /\ studies = <<>>
    /\ total_images = 0
    /\ idx = 1
    /\ series = <<>>
    /\ sidx = 1
    /\ success = TRUE
    /\ series_results = <<>>
    /\ study_results = <<>>
    /\ nresp = 0
    /\ nstores = 0
    /\ store_log = <<>>
    /\ loaded = [t \in Threads |-> None]
    /\ tool_out = None
    /\ walked = {}
    /\ \E host \in Hosts, aet \in Aets : args = Args(host, aet, None, None, None)
    /\ study_date = None
    /\ query_date = None
    /\ now = Date(2024, 1, 15)
    /\ exit_code = None
    /\ image_count = 0
    /\ reported = None
    /\ pc = "main"

NextMain ==
    \/ MainValidate
    \/ Next
    \/ MainExit
    \/ Interrupt
    \/ FileCountRaises

SpecMain == InitMain /\ [][NextMain]_vars

\* ================================================================ claims
Last(s) == s[Len(s)]
Min(a, b) == IF a < b THEN a ELSE b

\* the text of a multi-valued field as it is on the wire: "CT\NM"
RECURSIVE WireText(_)
WireText(mv) ==
    IF mv = <<>> THEN <<>>
    ELSE Head(mv) \o (IF Tail(mv) = <<>> THEN <<>> ELSE <<"\\">> \o WireText(Tail(mv)))

\* the field is present and its text holds "NM"
FieldHasNM(study) ==
    /\ study.ModalitiesInStudy # None
    /\ LET text == WireText(study.ModalitiesInStudy[1])
       IN  \E i \in 1..(Len(text) - 1) : text[i] = "N" /\ text[i + 1] = "M"

Matching(all) == SelectSeq(all, FieldHasNM)
Retained(study) == \E j \in 1..Len(studies) : studies[j] = study
MovePcs == {"move_assoc", "move_recv"}
ExchangePcs == {"find_recv", "series_recv", "move_recv"}
TransportOps == {"getscu", "start_server", "c_move"}
\* positions inside a call of retrieve_study
StudyPcs == {"series_assoc", "series_recv", "series_loop", "move_assoc", "move_recv"}

\* C1: every association established inside find_nm_studies, find_nm_series
\* or _retrieve_with_move is released before that call returns, on every
\* exit path; so no call has returned leaving its association open, and an
\* association is established only while its call exchanges responses.
C1_AssociationReleasedOnEveryPath ==
    /\ unreleased = {}
    /\ assoc => pc \in ExchangePcs

\* C2: a listener that was started is stopped before the move call returns
\* (association not established, move completed, or exchange raised): the
\* listener runs only while a move call is in progress, and never once
\* retrieve_images has ended.
C2_ListenerStoppedOnEveryPath == scp => pc \in MovePcs

C2_Witness_MoveRaisedListenerStopped ==
    /\ pc = "series_loop"
    /\ series_results # <<>>
    /\ Last(series_results).cause = "move_raised"
    /\ "start_server" \in ops
    /\ ~scp

\* C3: a dry run (construction with dry_run, then retrieve_images) makes no
\* filesystem write (no directory creation, file write or rename) and
\* invokes no retrieval transport (tool, listener, move request).
C3_DryRunWritesNothing ==
    dry_run => fs_log = {} /\ ops \cap TransportOps = {}

\* C4: in dry-run the count reported by the final summary equals the sum of
\* the declared instance counts of the studies processed (none declared
\* counting zero).
C4_DryRunReportsDeclaredSum ==
    (dry_run /\ pc = "done" /\ reported # None) =>
        reported[1] = SumDeclared(SubSeq(studies, 1, Len(study_results)))

\* C5: with a limit L > 0, find_nm_studies returns exactly the first
\* min(L, m) studies whose field holds NM, in discovery order, m being the
\* number of such studies among those discovered.
C5_FirstMatchingUpToLimit ==
    (pc = "find_return" /\ max_studies > 0) =>
        LET matching == Matching(all_studies)
        IN  studies = SubSeq(matching, 1, Min(max_studies, Len(matching)))

C5_Witness_LimitCutsInterleaved ==
    /\ pc = "find_return"
    /\ max_studies = 2
    /\ Len(all_studies) = 4
    /\ ~FieldHasNM(all_studies[2])
    /\ Len(Matching(all_studies)) = 3
    /\ studies = <<all_studies[1], all_studies[3]>>

\* C6: a discovered study is retained only if its modalities field is
\* present and its text holds NM; one whose field is absent or empty is
\* dropped; and a study whose field holds NM is retained, the only studies
\* left out being those beyond the limit, when a limit is given.
C6_RetainedIffFieldHasNM ==
    pc = "find_return" =>
        \A i \in 1..Len(all_studies) :
            LET study == all_studies[i]
            IN  /\ Retained(study) => FieldHasNM(study)
                /\ (FieldHasNM(study) /\ ~Retained(study)) =>
                       /\ max_studies > 0
                       /\ Len(studies) = max_studies
                       /\ \A j \in 1..Len(studies) :
                              studies[j].StudyInstanceUID < study.StudyInstanceUID

C6_Witness_OnlyNMKept ==
    /\ pc = "find_return"
    /\ max_studies = 0
    /\ Len(all_studies) = 4
    /\ all_studies[1].ModalitiesInStudy = None
    /\ all_studies[2].ModalitiesInStudy = Some(<<>>)
    /\ all_studies[3].ModalitiesInStudy = Some(<<CT, MR>>)
    /\ all_studies[4].ModalitiesInStudy = Some(<<CT, NM>>)
    /\ studies = <<all_studies[4]>>

\* C7: no network, protocol or storage condition aborts the run: no
\* exception reaches the caller of retrieve_images, and when the run ends
\* every study found has been processed, unless the image limit stopped
\* the loop.
C7_RunNeverAborts ==
    /\ pc # "raised"
    /\ (pc = "done" /\ studies # <<>>) =>
           /\ reported # None
           /\ \/ Len(study_results) = Len(studies)
              \/ (max_images > 0 /\ image_count >= max_images)

C7_Witness_CompletedDespiteErrors ==
    /\ pc = "done"
    /\ reported # None
    /\ Len(studies) = 2
    /\ Len(study_results) = 2
    /\ {"find_nm_series", "_retrieve_with_move"} \subseteq unreleased

\* C8: when the retrieval of one series fails, the later series of the
\* study are still attempted (every series found has a result when the
\* study returns), the study's result is failure exactly when some series
\* failed, and the outer loop goes on to the next study.
C8_SeriesFailureIsLocal ==
    /\ (pc = "after_study" /\ series # <<>>) =>
           /\ Len(series_results) = Len(series)
           /\ Last(study_results) =
                  (\A i \in 1..Len(series_results) : series_results[i].ok)
    /\ (pc = "loop" /\ idx <= Len(studies)) => Len(study_results) = idx - 1
    /\ (pc = "summary" /\ \E i \in 1..Len(study_results) : ~study_results[i]) =>
           \/ Len(study_results) = Len(studies)
           \/ (max_images > 0 /\ image_count >= max_images)

C8_Witness_LaterSeriesAttempted ==
    /\ pc = "after_study"
    /\ Len(series) = 2
    /\ ~series_results[1].ok
    /\ series_results[2].ok
    /\ Last(study_results) = FALSE

\* C9: in the self-hosted variant, a move answered with a failure or
\* refused status marks the retrieval of that series failed.
C9_MoveErrorStatusFailsSeries ==
    \A i \in 1..Len(series_results) :
        series_results[i].cause = "move_error_status" => ~series_results[i].ok

\* C10: when the association of the study find is not established,
\* find_nm_studies sends no find request and returns an empty list, and
\* retrieve_images makes no series lookup and no retrieval and ends
\* without raising.
C10_NoAssociationNothingFound ==
    study_assoc \in {"rejected", "raised"} =>
        /\ pc = "done"
        /\ ops = {"associate"}
        /\ ~assoc
        /\ studies = <<>>
        /\ study_results = <<>>

C10_Witness_AssociationRejected ==
    /\ study_assoc = "rejected"
    /\ pc = "done"
    /\ reported = None

C12_AtMostMaxStudiesStarted ==
    Len(study_results) + (IF pc \in StudyPcs THEN 1 ELSE 0) <= max_studies

\* the i-th store event handled
Stored(i) == store_log[i]

\* C13: outside dry-run, handle_store returns 0x0000 exactly when the
\* object was written at its destination path, and on a local filesystem
\* failure while persisting (directory creation included) it returns
\* 0xC000 and does not raise; later objects are still stored.
C13_StoreStatusTellsWritten ==
    ~dry_run =>
        \A i \in 1..Len(store_log) :
            /\ ~Stored(i).raised
            /\ Stored(i).status = Some(StatusSuccess) <=> Stored(i).written
            /\ ~Stored(i).written => Stored(i).status = Some(StatusUnableToProcess)
            /\ Stored(i).written => Stored(i).path \in files

\* C14: in the move variant the listener is started before the move
\* request: the association of a move is opened, and the request sent,
\* only while the listener runs; and when start_server gives no listener
\* the series gets the result False in that same step, with no association
\* opened and nothing but the start_server attempt made.
C14_ListenerBeforeMove ==
    [][/\ pc' \in MovePcs => scp'
       /\ (pc = "move_assoc" /\ pc' = "move_recv") => (scp /\ "c_move" \in ops')
       /\ (pc = "series_loop" /\ ~use_c_get /\ pc' # "move_assoc") =>
              \/ sidx > Len(series)
              \/ /\ ~scp' /\ ~assoc'
                 /\ ops' = ops \cup {"start_server"}
                 /\ Len(series_results') = Len(series_results) + 1
                 /\ ~Last(series_results').ok]_vars

C14_Witness_NoListenerNoMove ==
    /\ ~use_c_get
    /\ pc = "series_loop"
    /\ series_results # <<>>
    /\ Last(series_results).cause = "server_none"
    /\ "start_server" \in ops
    /\ "c_move" \notin ops
    /\ ~scp

\* what a series retrieval of the get variant can end with
GetCauses == GetOutcomes \cup {"exit_zero_rename_failed"}

\* C15: use_c_get is set at construction and never changes, and every
\* series retrieval follows it: an instance with use_c_get never starts a
\* listener nor sends a move request, and one without it never runs getscu.
C15_OneVariantPerInstance ==
    [][/\ use_c_get' = use_c_get
       /\ use_c_get' =>
              /\ ops' \cap {"start_server", "c_move"} = {}
              /\ ~scp' /\ pc' \notin MovePcs
              /\ \A i \in 1..Len(series_results') :
                     series_results'[i].cause \in GetCauses
       /\ ~use_c_get' =>
              /\ "getscu" \notin ops'
              /\ \A i \in 1..Len(series_results') :
                     series_results'[i].cause \notin GetCauses]_vars

C15_Witness_TwoSeriesByTool ==
    /\ use_c_get
    /\ pc = "after_study"
    /\ Len(series_results) = 2
    /\ Len(study_results) = 2
    /\ "getscu" \in ops
    /\ "start_server" \notin ops

\* the stages of retrieve_images, in the order of its text
StageOf(p) ==
    CASE p \in {"start", "constructed"} -> 0
      [] p \in {"find_assoc", "find_recv"} -> 1
      [] p \in {"filter", "find_return"} -> 2
      [] p \in {"loop", "after_study"} \cup StudyPcs -> 3
      [] p = "summary" -> 4
      [] OTHER -> 5

\* C16: a non-dry run goes through find studies, filter, the studies one
\* by one (series find, then the retrieval of each series), summary, in
\* that order: the study find is entered once, from the start, and its
\* request precedes every series find; a series is retrieved only with
\* the series of the study in progress found; a study starts only when
\* the ones before it have returned, the next position being taken only
\* after the study has returned with every series retrieved; the studies
\* are in discovery order; nothing follows the summary.
C16_StagesInOrder ==
    [][~dry_run =>
        /\ StageOf(pc') >= StageOf(pc)
        /\ pc' = "find_assoc" => pc = "constructed" /\ ops = {}
        /\ pc' \in {"series_assoc", "series_recv"} =>
               "c_find_study" \in ops /\ StageOf(pc) = 3
        /\ (sidx' = sidx + 1 \/ pc' \in MovePcs) =>
               /\ "c_find_series" \in ops
               /\ series # <<>> /\ sidx <= Len(series) /\ series' = series
               /\ Len(study_results) = idx - 1
        /\ pc' = "series_assoc" =>
               /\ pc = "loop" /\ idx <= Len(studies)
               /\ Len(study_results) = idx - 1
               /\ series = <<>> /\ series_results = <<>>
        /\ idx' # idx =>
               /\ idx' = idx + 1 /\ pc = "after_study"
               /\ Len(study_results) = idx
               /\ Len(series_results) = Len(series)
        /\ \A i, j \in 1..Len(studies') :
               i < j => studies'[i].StudyInstanceUID < studies'[j].StudyInstanceUID
        /\ reported' # None => pc' = "done"
        /\ pc # "done"]_vars

C16_Witness_TwoStudiesThenSummary ==
    /\ ~dry_run
    /\ pc = "done"
    /\ reported # None
    /\ Len(study_results) = 2
    /\ "c_find_series" \in ops
    /\ ops \cap TransportOps # {}

\* C17: at most one association with the archive is open at any point of
\* a run, counting the one the running call holds and those that earlier
\* calls left unreleased.
C17_AtMostOneAssociationOpen ==
    (IF assoc THEN 1 ELSE 0) + Cardinality(unreleased) <= 1

\* the characters a sanitized identifier may hold
SafeChars == Letters \cup Digits \cup {"-", "_"}
OnlySafe(text) == \A k \in 1..Len(text) : text[k] \in SafeChars

\* C18: each of the four names handle_store builds the destination path
\* from (patient, study, series, instance) holds only alphanumeric
\* characters, '-' and '_'.
C18_EverySegmentSanitized ==
    \A i \in 1..Len(store_log) :
        LET names == Stored(i).names
        IN  ~dry_run =>
            /\ OnlySafe(names.patient_id)
            /\ OnlySafe(names.study_uid)
            /\ OnlySafe(names.series_uid)
            /\ OnlySafe(names.sop_uid)

IsSafe(c) == c \in SafeChars

\* C19: the sanitized patient identifier is exactly the characters of the
\* identifier that are alphanumeric, '-' or '_', in their order ("AB/12*ID"
\* gives "AB12ID"); an identifier holding only such characters is
\* unchanged, and sanitizing the result again changes nothing.
C19_SanitizeKeepsSafeCharsInOrder ==
    \A i \in 1..Len(store_log) :
        LET given == GetAttr(Stored(i).ds.PatientID)
            result == Stored(i).names.patient_id
        IN  /\ result = SelectSeq(given, IsSafe)
            /\ given = ExampleId => result = <<"A", "B", "1", "2", "I", "D">>
            /\ OnlySafe(given) => result = given
            /\ Sanitize(result) = result

C19_Witness_ExampleSanitized ==
    /\ Len(store_log) = 1
    /\ Stored(1).ds.PatientID = Some(ExampleId)
    /\ Stored(1).names.patient_id = <<"A", "B", "1", "2", "I", "D">>
    /\ Stored(1).written

\* C20: two objects written by handle_store whose study UIDs or series
\* UIDs differ are written at different destination paths.
C20_DistinctSeriesDistinctPaths ==
    \A i, j \in 1..Len(store_log) :
        (/\ Stored(i).written /\ Stored(j).written
         /\ \/ Stored(i).names.study_uid # Stored(j).names.study_uid
            \/ Stored(i).names.series_uid # Stored(j).names.series_uid)
        => Stored(i).path # Stored(j).path

\* a series retrieval has just returned with this cause
JustReturned(cause) ==
    /\ Len(series_results') = Len(series_results) + 1
    /\ Last(series_results').cause = cause

\* C21: after a rename pass in which no rename failed, every file of the
\* tree ends with ".dcm" (a file 1.2.840 that was there is now
\* 1.2.840.dcm), and a pass over that tree renames nothing: a tree whose
\* names all end with ".dcm" already is left as it was.
C21_RenamePassIdempotent ==
    [][JustReturned("exit_zero") =>
        /\ \A f \in files' : EndsWith(FileName(f), DotDcm)
        /\ OutputDir \o <<ExampleName>> \in files =>
               /\ OutputDir \o <<ExampleName \o DotDcm>> \in files'
               /\ OutputDir \o <<ExampleName>> \notin files'
        /\ RenamePass(files', {}) = files'
        /\ (\A f \in files : EndsWith(FileName(f), DotDcm)) =>
               files \subseteq files' /\ files' \ files \subseteq {WithDcm(f) : f \in ToolFiles}]_vars

C21_Witness_SecondPassChangesNothing ==
    /\ Len(series_results) = 2
    /\ series_results[1].cause = "exit_zero"
    /\ series_results[2].cause = "exit_zero"
    /\ "rename" \in fs_log
    /\ files = {OutputDir \o <<ExampleName \o DotDcm>>,
                OutputDir \o <<<<"P", "1">>, <<"1", ".", "2">>, <<"7">> \o DotDcm>>}

GetSuccessCauses == {"exit_zero", "exit_zero_rename_failed"}
GetFailureCauses == {"no_tool", "error", "timeout", "exit_nonzero"}

Given(opt) == opt # None /\ opt[1] # <<>>

\* the day count of a date, from the civil calendar
DaysBeforeYear(y) == 365 * (y - 1) + (y - 1) \div 4 - (y - 1) \div 100 + (y - 1) \div 400
DaysBeforeMonth(y, m) ==
    <<0, 31, 59, 90, 120, 151, 181, 212, 243, 273, 304, 334>>[m]
    + (IF m > 2 /\ ((y % 4 = 0 /\ y % 100 # 0) \/ y % 400 = 0) THEN 1 ELSE 0)
DayNumber(date) == DaysBeforeYear(date.y) + DaysBeforeMonth(date.y, date.m) + date.d

\* the date a YYYYMMDD text names
DateOf(text) ==
    Date(NumValue(SubSeq(text, 1, 4)), NumValue(SubSeq(text, 5, 6)),
         NumValue(SubSeq(text, 7, 8)))

\* C23: the StudyDate of the study find is, by precedence: with from or to
\* given, "<from>-<to>" with 19700101 for a from not given and 29991231
\* for a to not given, a single date given or not; else the single date as
\* given; else "<start>-<end>" with end the day the find is made and start
\* 30 days before it.
C23_DateRangeByPrecedence ==
    query_date # None =>
        LET query == query_date[1]
            f == args.from_date
            t == args.to_date
        IN  IF Given(f) \/ Given(t)
            THEN query = (IF Given(f) THEN f[1] ELSE <<"1", "9", "7", "0", "0", "1", "0", "1">>)
                         \o <<"-">>
                         \o (IF Given(t) THEN t[1] ELSE <<"2", "9", "9", "9", "1", "2", "3", "1">>)
            ELSE IF Given(args.study_date)
            THEN query = args.study_date[1]
            ELSE /\ Len(query) = 17
                 /\ query[9] = "-"
                 /\ DateOf(SubSeq(query, 10, 17)) = now
                 /\ DayNumber(now) - DayNumber(DateOf(SubSeq(query, 1, 8))) = 30
                 /\ DateOf(SubSeq(query, 1, 8)).m \in 1..12
                 /\ DateOf(SubSeq(query, 1, 8)).d \in 1..31

C23_Witness_DefaultAcrossLeapFebruary ==
    /\ ~Given(args.from_date) /\ ~Given(args.to_date) /\ ~Given(args.study_date)
    /\ now = Date(2024, 3, 1)
    /\ query_date = Some(<<"2", "0", "2", "4", "0", "1", "3", "1", "-",
                           "2", "0", "2", "4", "0", "3", "0", "1">>)

\* C24: with the host or the remote AE title missing the process stops
\* with a configuration error before anything else: the retriever is never
\* constructed, no association is requested, no listener is started, no
\* retrieval operation runs and nothing is written.
C24_MissingParameterStopsBeforeNetwork ==
    (~Given(args.host) \/ ~Given(args.aet)) =>
        /\ pc \in {"main", "exited"}
        /\ ops = {}
        /\ ~assoc /\ study_assoc = "none"
        /\ ~scp
        /\ fs_log = {} /\ files = {}
        /\ pc = "exited" => exit_code = Some(ExitUsage)

C24_Witness_ExitedForMissingAet ==
    /\ Given(args.host) /\ ~Given(args.aet)
    /\ pc = "exited"
    /\ exit_code = Some(ExitUsage)

\* C25: the process exits with status zero exactly when retrieve_images
\* has returned, and with a non-zero status when retrieve_images is left
\* by an interrupt or by an error it does not handle.
C25_ExitZeroIffReturned ==
    [][(pc' = "exited" /\ pc # "exited") =>
         (/\ exit_code' # None
          /\ exit_code' = Some(0) <=> pc = "done"
          /\ pc \in RunPcs => exit_code'[1] > 0)]_vars

C25_Witness_InterruptedExitsNonZero ==
    /\ pc = "exited"
    /\ exit_code = Some(ExitError)
    /\ Len(study_results) = 1
    /\ reported = None

\* positions inside the loop over the studies of retrieve_images
LoopPcs == {"loop", "after_study"} \cup StudyPcs

\* C26: an interrupt that arrives inside the loop over the studies starts
\* no further study, and the images retrieved so far are reported before
\* the run ends.
C26_InterruptReportsPartialResults ==
    [][(pc \in LoopPcs /\ pc' = "exited") =>
         (/\ Len(study_results') = Len(study_results)
          /\ idx' = idx
          /\ reported' = Some(image_count'))]_vars

\* C27: with a limit L > 0 the study find never holds more than L collected
\* responses (and so consumes none after the L-th it collected).
C27_CollectionStopsAtLimit ==
    max_studies > 0 => Len(all_studies) <= max_studies

\* the studies retrieve_study has returned for
Processed == SubSeq(studies, 1, Len(study_results))

\* C28: in dry-run with max_images = m >= 1 the counter stands, between
\* studies, at the sum of the declared instance counts of the studies
\* processed, and no study is started once that sum has reached m.
C28_DryRunStopsAtDeclaredCount ==
    (dry_run /\ max_images > 0) =>
        /\ pc \in {"loop", "summary"} => image_count = SumDeclared(Processed)
        /\ (pc = "loop" /\ idx <= Len(studies)) => SumDeclared(Processed) < max_images

\* C29: the image counter is zero when the retriever has been constructed
\* and no step of the run ever decreases it: not a store callback, not a
\* retrieval with getscu (whatever its output), not a failed retrieval,
\* not a dry-run step.
C29_ImageCounterMonotonic ==
    [][/\ (pc = "start" /\ pc' # pc) => image_count' = 0
       /\ pc # "start" => image_count' >= image_count]_vars

\* C30: outside dry-run, after any sequence of inbound store events the
\* counter equals the number of events whose object was written (the ones
\* answered with the success status); a failed write adds nothing.
C30_CounterCountsWrittenObjects ==
    ~dry_run =>
        /\ image_count = Cardinality({i \in 1..Len(store_log) : Stored(i).written})
        /\ \A i \in 1..Len(store_log) :
               Stored(i).written <=> Stored(i).status = Some(StatusSuccess)

\* C31: with store callbacks on the listener's threads, several at once,
\* no increment of the counter is lost: when the move call returns the
\* listener is stopped and the counter (zero when the move began) has
\* grown by the number of store events handled during the move.
C31_NoIncrementLost ==
    [][(pc = "move_recv" /\ pc' # "move_recv") =>
         (/\ ~scp'
          /\ image_count' = image_count
          /\ image_count = Len(store_log))]_vars

\* C32: every find request and every retrieve request of the run, under
\* either transport, is made under the query model selected at
\* construction: study root with use_study_root, patient root without.
C32_SelectedQueryModelEverywhere ==
    \A r \in requests :
        r.model = (IF use_study_root THEN "study" ELSE "patient")

\* C33: the rename pass of a successful get destroys no data: the tree
\* holds as many files after the pass as it held when the pass began,
\* also when a file x and a file x.dcm are in the same directory.
C33_RenamePassKeepsEveryFile ==
    [][(JustReturned("exit_zero") \/ JustReturned("exit_zero_rename_failed")) =>
         Cardinality(files') = Cardinality(walked')]_vars

\* walking the components of a path from `depth` levels below the output
\* root never leaves the root
RECURSIVE StaysBelow(_, _)
StaysBelow(parts, depth) ==
    IF parts = <<>> THEN TRUE
    ELSE IF Head(parts) = <<".", ".">>
    THEN depth > 0 /\ StaysBelow(Tail(parts), depth - 1)
    ELSE StaysBelow(Tail(parts), depth + 1)

\* the path lies inside the output root
InsideRoot(path) ==
    /\ Len(path) >= Len(OutputDir)
    /\ SubSeq(path, 1, Len(OutputDir)) = OutputDir
    /\ StaysBelow(SubSeq(path, Len(OutputDir) + 1, Len(path)), 0)

\* C34: whatever the patient, study, series and instance identifiers of an
\* inbound object (holding '/' or '..', empty, missing), the destination
\* path handle_store computes lies inside the output root.
C34_DestinationInsideRoot ==
    \A i \in 1..Len(store_log) :
        ~dry_run => InsideRoot(Stored(i).path)

====
